---------------------------- MODULE Spec2Model ----------------------------
(***************************************************************************)
(* Model of the YouTube search-results scraper: the JSON results parser    *)
(* (youtube/search_results_json_parser.py), the video store                *)
(* (youtube/video_data_manager.py) and the search script                   *)
(* (youtube/search_results_scraper.py).                                    *)
(*                                                                         *)
(* JSON values are records [t, ks, e, s, n]:                               *)
(*   t  = "map" | "seq" | "str" | "num" | "bool" | "null"                  *)
(*   ks = the keys of a map, in stored order (a Python dict keeps          *)
(*        insertion order and has no duplicate key)                        *)
(*   e  = the values of a map (parallel to ks), or the elements of a list  *)
(*   s  = the characters of a string, as a sequence of one-character       *)
(*        strings                                                          *)
(*   n  = the value of a number; 1/0 for true/false                        *)
(* Python's None is the JSON null.                                         *)
(***************************************************************************)
EXTENDS Integers, Sequences, FiniteSets, TLC

VARIABLES
    pc,        \* position of the running script, or the phase of an API harness
    json,      \* SearchResultsJSONParser._json
    videos,    \* SearchResultsJSONParser._videos (a list)
    store,     \* VideoDataManager._videos (a dict, kept as its values in insertion order)
    ret,       \* what the last call returned or raised: [op, arg, exc, val]
    console,   \* what print_videos wrote to STDOUT, one element per video
    mdfile,    \* content of the markdown file, as the list joined by "\n"; <<>> if never written
    requests,  \* the search URLs requested so far, in order
    input      \* the document at hand: the argument of the call, or the last page fetched

vars == <<pc, json, videos, store, ret, console, mdfile, requests, input>>

-----------------------------------------------------------------------------
(* JSON values *)

Str(chars) == [t |-> "str", ks |-> <<>>, e |-> <<>>, s |-> chars, n |-> 0]
Num(i) == [t |-> "num", ks |-> <<>>, e |-> <<>>, s |-> <<>>, n |-> i]
Bool(b) == [t |-> "bool", ks |-> <<>>, e |-> <<>>, s |-> <<>>, n |-> IF b THEN 1 ELSE 0]
None == [t |-> "null", ks |-> <<>>, e |-> <<>>, s |-> <<>>, n |-> 0]
Map(keys, vals) == [t |-> "map", ks |-> keys, e |-> vals, s |-> <<>>, n |-> 0]
List(elems) == [t |-> "seq", ks |-> <<>>, e |-> elems, s |-> <<>>, n |-> 0]

EmptyMap == Map(<<>>, <<>>)

\* The outcome of a Python expression: a value, or the exception it raised.
Ok(v) == [exc |-> "", val |-> v]
Raise(name) == [exc |-> name, val |-> None]

-----------------------------------------------------------------------------
(* SearchResultsJSONParser._gen_dict_extract *)

RECURSIVE GenDictExtractFull(_, _)
RECURSIVE ExtractItemsFull(_, _, _)
RECURSIVE ExtractListFull(_, _, _)
RECURSIVE GenDictExtractCode(_, _)
RECURSIVE ExtractItems(_, _, _)
RECURSIVE ExtractList(_, _, _)

\* A traversal that visits every dict of the structure, wherever it is: what
\* the extractor is compared with.
GenDictExtractFull(key, var) ==
    IF var.t = "map" THEN ExtractItemsFull(key, var, 1)
    ELSE IF var.t = "seq" THEN ExtractListFull(key, var.e, 1)
    ELSE <<>>

ExtractItemsFull(key, var, i) ==
    IF i > Len(var.e) THEN <<>>
    ELSE (IF var.ks[i] = key THEN <<var.e[i]>> ELSE <<>>)
         \o GenDictExtractFull(key, var.e[i])
         \o ExtractItemsFull(key, var, i + 1)

ExtractListFull(key, l, i) ==
    IF i > Len(l) THEN <<>>
    ELSE GenDictExtractFull(key, l[i]) \o ExtractListFull(key, l, i + 1)

\* for d in v: for result in self._gen_dict_extract(key, d): yield result
ExtractList(key, l, i) ==
    IF i > Len(l) THEN <<>>
    ELSE GenDictExtractCode(key, l[i]) \o ExtractList(key, l, i + 1)

\* The body of "for k, v in var.items()", from the i-th item on.
ExtractItems(key, var, i) ==
    IF i > Len(var.e) THEN <<>>
    ELSE LET k == var.ks[i]
             v == var.e[i]
         IN (IF k = key THEN <<v>> ELSE <<>>)
            \o (IF v.t = "map" THEN GenDictExtractCode(key, v)
                ELSE IF v.t = "seq" THEN ExtractList(key, v.e, 1)
                ELSE <<>>)
            \o ExtractItems(key, var, i + 1)

\* hasattr(var, 'items') holds of a dict only.
GenDictExtractCode(key, var) ==
    IF var.t = "map" THEN ExtractItems(key, var, 1) ELSE <<>>

\* A variant without the "if k == key" test: every value of the dict is yielded.
GenDictExtractAnyKey(key, var) == IF var.t = "map" THEN var.e ELSE <<>>

\* A variant that stops at the first level: nested maps are not explored.
GenDictExtractShallow(key, var) ==
    IF var.t = "map"
    THEN LET hit == {i \in 1..Len(var.ks) : var.ks[i] = key}
         IN IF hit = {} THEN <<>> ELSE <<var.e[CHOOSE i \in hit : TRUE]>>
    ELSE <<>>

\* A variant that yields the same values, the last one first.
GenDictExtractReversed(key, var) ==
    LET r == GenDictExtractCode(key, var)
    IN [i \in 1..Len(r) |-> r[Len(r) + 1 - i]]

\* The values yielded by _gen_dict_extract(key, var), in the order yielded.
GenDictExtract(key, var) == GenDictExtractCode(key, var)

-----------------------------------------------------------------------------
(* Python expressions the parser uses *)

\* var[key] for a string key: a dict looks the key up, anything else
\* (list, str, int, bool, None) is not subscriptable by a string.
Subscript(v, key) ==
    IF v.t = "map"
    THEN LET hit == {i \in 1..Len(v.ks) : v.ks[i] = key}
         IN IF hit = {} THEN Raise("KeyError") ELSE Ok(v.e[CHOOSE i \in hit : TRUE])
    ELSE Raise("TypeError")

\* var[0]
Item0(v) ==
    CASE v.t = "seq" -> IF Len(v.e) = 0 THEN Raise("IndexError") ELSE Ok(v.e[1])
      [] v.t = "str" -> IF Len(v.s) = 0 THEN Raise("IndexError") ELSE Ok(Str(<<v.s[1]>>))
      [] v.t = "map" -> Raise("KeyError")
      [] OTHER -> Raise("TypeError")

\* One step of a subscript chain: ["k"] or [0].
K(k) == [i |-> FALSE, k |-> k]
I0 == [i |-> TRUE, k |-> ""]

RECURSIVE GetPath(_, _)
\* var[p1][p2]...: the first step that raises ends the evaluation.
GetPath(v, path) ==
    IF path = <<>> THEN Ok(v)
    ELSE LET r == IF Head(path).i THEN Item0(v) ELSE Subscript(v, Head(path).k)
         IN IF r.exc # "" THEN r ELSE GetPath(r.val, Tail(path))

Digits == <<"0", "1", "2", "3", "4", "5", "6", "7", "8", "9">>
IsDigit(c) == \E d \in 1..Len(Digits) : Digits[d] = c
DigitValue(c) == (CHOOSE d \in 1..Len(Digits) : Digits[d] = c) - 1

RECURSIVE StripLeft(_)
StripLeft(chars) ==
    IF chars # <<>> /\ Head(chars) = " " THEN StripLeft(Tail(chars)) ELSE chars

RECURSIVE StripRight(_)
StripRight(chars) ==
    IF chars # <<>> /\ chars[Len(chars)] = " "
    THEN StripRight(SubSeq(chars, 1, Len(chars) - 1)) ELSE chars

RECURSIVE DecimalValue(_, _)
\* The value of a string of decimal digits, most significant first.
DecimalValue(chars, acc) ==
    IF chars = <<>> THEN acc
    ELSE DecimalValue(Tail(chars), 10 * acc + DigitValue(Head(chars)))

\* A variant of int() that reads the first digit only.
PyIntFirstDigit(v) ==
    IF v.t = "str" /\ v.s # <<>> /\ IsDigit(v.s[1]) THEN Ok(DigitValue(v.s[1]))
    ELSE IF v.t = "num" THEN Ok(v.n)
    ELSE Raise("ValueError")

\* int(x): a string is stripped of blanks and read as an optionally signed
\* decimal literal; a number or a bool gives its value; None, a dict and a
\* list are a TypeError.  (Numbers of the documents are integers.)
PyInt(v) ==
    CASE v.t = "str" ->
           LET body == StripRight(StripLeft(v.s))
               signed == body # <<>> /\ Head(body) \in {"-", "+"}
               digits == IF signed THEN Tail(body) ELSE body
           IN IF digits = <<>> \/ \E i \in 1..Len(digits) : ~IsDigit(digits[i])
              THEN Raise("ValueError")
              ELSE Ok(IF signed /\ Head(body) = "-"
                      THEN 0 - DecimalValue(digits, 0)
                      ELSE DecimalValue(digits, 0))
      [] v.t \in {"num", "bool"} -> Ok(v.n)
      [] OTHER -> Raise("TypeError")

RECURSIVE DecimalChars(_)
DecimalChars(i) ==
    IF i < 10 THEN <<Digits[i + 1]>> ELSE Append(DecimalChars(i \div 10), Digits[(i % 10) + 1])

\* f"{x}" for a scalar x.
PyFormat(v) ==
    CASE v.t = "str" -> v.s
      [] v.t = "num" -> IF v.n < 0 THEN <<"-">> \o DecimalChars(0 - v.n) ELSE DecimalChars(v.n)
      [] v.t = "bool" -> IF v.n = 1 THEN <<"True">> ELSE <<"False">>
      [] OTHER -> <<"None">>

-----------------------------------------------------------------------------
(* youtube/data_classes/video.py and parse_video_results *)

\* f"https://www.youtube.com/watch?v={video_id}"
WatchUrl(video_id) == <<"https://www.youtube.com/watch?v=">> \o PyFormat(video_id)

Video(video_id, video_url, thumbnail_url, title, length, channel, channel_url, channel_thumbnail_url, uploaded_on, view_count_text) ==
    [video_id |-> video_id, video_url |-> video_url, thumbnail_url |-> thumbnail_url,
     title |-> title, length |-> length, channel |-> channel, channel_url |-> channel_url,
     channel_thumbnail_url |-> channel_thumbnail_url, uploaded_on |-> uploaded_on,
     view_count_text |-> view_count_text]

\* The subscript chains of the Video(...) call, in the order Python evaluates them.
FieldPaths ==
    << <<K("thumbnail"), K("thumbnails"), I0, K("url")>>,
       <<K("title"), K("runs"), I0, K("text")>>,
       <<K("lengthText"), K("runs"), I0, K("text")>>,
       <<K("longBylineText"), K("runs"), I0, K("text")>>,
       <<K("longBylineText"), K("runs"), I0, K("navigationEndpoint"),
         K("commandMetadata"), K("webCommandMetadata"), K("url")>>,
       <<K("channelThumbnail"), K("thumbnails"), I0, K("url")>>,
       <<K("publishedTimeText"), K("runs"), I0, K("text")>>,
       <<K("viewCountText"), K("runs"), I0, K("text")>> >>

\* Video(video_id, f"...{video_id}", video["thumbnail"]..., ...): the record, or
\* the exception of the first argument that raises.
BuildVideo(video, video_id) ==
    LET rs == [j \in 1..Len(FieldPaths) |-> GetPath(video, FieldPaths[j])]
        bad == {j \in 1..Len(FieldPaths) : rs[j].exc # ""}
    IN IF bad = {}
       THEN Ok(Video(video_id, WatchUrl(video_id), rs[1].val, rs[2].val, rs[3].val,
                     rs[4].val, rs[5].val, rs[6].val, rs[7].val, rs[8].val))
       ELSE Raise(rs[CHOOSE j \in bad : \A l \in bad : j <= l].exc)

\* What "except KeyError" catches.
Caught(exc) == exc = "KeyError"

RECURSIVE ParseLoop(_, _, _)
\* "for video in video_data:" from the i-th entry on, acc being self._videos:
\* video["videoId"] is read outside the try, the Video is built inside it.
\* Gives the exception that escapes ("" if none) and self._videos at that point.
ParseLoop(entries, i, acc) ==
    IF i > Len(entries) THEN [exc |-> "", videos |-> acc]
    ELSE LET video == entries[i]
             idr == Subscript(video, "videoId")
         IN IF idr.exc # "" THEN [exc |-> idr.exc, videos |-> acc]
            ELSE LET r == BuildVideo(video, idr.val)
                 IN IF r.exc = "" THEN ParseLoop(entries, i + 1, Append(acc, r.val))
                    ELSE IF Caught(r.exc) THEN ParseLoop(entries, i + 1, acc)
                    ELSE [exc |-> r.exc, videos |-> acc]

VideoKey == "compactVideoRenderer"
ContinuationKey == "nextContinuationData"

\* A variant of parse_video_results that starts from an empty list.
ParseVideoResultsReset(results_json, acc) ==
    ParseLoop(GenDictExtract(VideoKey, results_json), 1, <<>>)

\* parse_video_results(results_json) on a parser whose _videos is acc.
ParseVideoResults(results_json, acc) ==
    ParseLoop(GenDictExtract(VideoKey, results_json), 1, acc)

\* get_estimated_results_count(): int(self._json["estimatedResults"])
GetEstimatedResultsCount(doc) ==
    LET r == Subscript(doc, "estimatedResults")
    IN IF r.exc # "" THEN r ELSE PyInt(r.val)

\* A variant of get_next_continuation_data that reads the last match.
GetNextContinuationDataLast(doc) ==
    LET found == GenDictExtract(ContinuationKey, doc)
    IN IF found = <<>> THEN Ok(None)
       ELSE LET c == Subscript(found[Len(found)], "continuation")
                p == Subscript(found[Len(found)], "clickTrackingParams")
            IN IF c.exc # "" THEN (IF c.exc = "KeyError" THEN Ok(None) ELSE c)
               ELSE IF p.exc # "" THEN (IF p.exc = "KeyError" THEN Ok(None) ELSE p)
               ELSE Ok(List(<<c.val, p.val>>))

\* get_next_continuation_data(): the pair of the first match's 'continuation'
\* and 'clickTrackingParams' (a list of two values), or None after a
\* StopIteration or a KeyError; any other exception escapes.
GetNextContinuationData(doc) ==
    LET found == GenDictExtract(ContinuationKey, doc)
    IN IF found = <<>> THEN Ok(None)
       ELSE LET c == Subscript(found[1], "continuation")
                p == Subscript(found[1], "clickTrackingParams")
            IN IF c.exc # "" THEN (IF c.exc = "KeyError" THEN Ok(None) ELSE c)
               ELSE IF p.exc # "" THEN (IF p.exc = "KeyError" THEN Ok(None) ELSE p)
               ELSE Ok(List(<<c.val, p.val>>))

-----------------------------------------------------------------------------
(* The documents the operations are run on *)

MaxDepth == 5      \* wrappers around the innermost value of a nested document
MaxWidth == 2      \* elements of an innermost list
MaxEntries == 2    \* video entries of a results page (parser runs)
MaxConts == 2      \* nextContinuationData nodes of a results page (parser runs)
MaxBatch == 3      \* records of one add_videos call (store runs)
MaxPageEntries == 1  \* video entries of a page the script fetches

SeqsUpTo(S, n) == UNION {[1..m -> S] : m \in 0..n}

\* A dict from a list of <<key, value>> pairs.
MapOf(pairs) ==
    Map([i \in 1..Len(pairs) |-> pairs[i][1]], [i \in 1..Len(pairs) |-> pairs[i][2]])

\* Nested documents of any shape: an innermost value (a scalar, a list of
\* scalars, a dict of scalars) inside up to MaxDepth wrappers.
Scalars == {Str(<<"a">>), Bool(TRUE)}
GenKeys == {VideoKey, "contents"}
KeySeqs == {ks \in SeqsUpTo(GenKeys, Cardinality(GenKeys)) :
                \A i, j \in 1..Len(ks) : i # j => ks[i] # ks[j]}
Cores ==
    Scalars
    \cup UNION {{Map(ks, vs) : vs \in [1..Len(ks) -> Scalars]} : ks \in KeySeqs}
    \cup {List(l) : l \in SeqsUpTo(Scalars, MaxWidth)}

WrapKinds == {"dict", "match", "list", "list2"}
Wrap(w, x) ==
    CASE w = "dict" -> Map(<<"contents">>, <<x>>)
      [] w = "match" -> Map(<<VideoKey, "contents">>, <<x, Map(<<VideoKey>>, <<Num(2)>>)>>)
      [] w = "list" -> List(<<Num(1), x>>)
      [] w = "list2" -> List(<<Map(<<VideoKey>>, <<Str(<<"b">>)>>), x>>)

RECURSIVE WrapAll(_, _)
\* path[1] is the outermost wrapper.
WrapAll(path, x) ==
    IF path = <<>> THEN x ELSE Wrap(Head(path), WrapAll(Tail(path), x))

\* The nested documents of at most depth wrappers.
GenericDocs(depth) == {WrapAll(p, c) : p \in SeqsUpTo(WrapKinds, depth), c \in Cores}

\* Results pages, shaped like the mobile response.
Runs(text) == Map(<<"runs">>, <<List(<<Map(<<"text">>, <<Str(text)>>)>>)>>)
Thumbnails(url) == Map(<<"thumbnails">>, <<List(<<Map(<<"url">>, <<Str(url)>>)>>)>>)
Byline(miss) ==
    Map(<<"runs">>, <<List(<<MapOf(
        (IF miss = "channel" THEN <<>> ELSE << <<"text", Str(<<"c">>)>> >>)
        \o (IF miss = "channel_url" THEN <<>>
            ELSE << <<"navigationEndpoint",
                      Map(<<"commandMetadata">>, <<Map(<<"webCommandMetadata">>,
                          <<Map(<<"url">>, <<Str(<<"/", "c">>)>>)>>)>>)>> >>))>>)>>)

\* The sub-fields a Video needs, by the name of the Video field they fill.
RequiredFields ==
    {"video_id", "thumbnail_url", "title", "length", "channel", "channel_url",
     "channel_thumbnail_url", "uploaded_on", "view_count_text"}

\* A compactVideoRenderer node with every sub-field but the one named by miss
\* ("" for none); miss = "title_runs" leaves title.runs empty.
Entry(id, title, miss) ==
    LET fs == SelectSeq(
            << <<"video_id", "videoId", Str(id)>>,
               <<"thumbnail_url", "thumbnail", Thumbnails(<<"i">>)>>,
               <<"title", "title",
                 IF miss = "title_runs" THEN Map(<<"runs">>, <<List(<<>>)>>) ELSE Runs(title)>>,
               <<"length", "lengthText", Runs(<<"1", ":", "0", "0">>)>>,
               <<"channel", "longBylineText", Byline(miss)>>,
               <<"channel_thumbnail_url", "channelThumbnail", Thumbnails(<<"j">>)>>,
               <<"uploaded_on", "publishedTimeText", Runs(<<"d">>)>>,
               <<"view_count_text", "viewCountText", Runs(<<"9">>)>> >>,
            LAMBDA f : f[1] # miss \/ miss \in {"channel", "channel_url"})
    IN Map([i \in 1..Len(fs) |-> fs[i][2]], [i \in 1..Len(fs) |-> fs[i][3]])

Ids == {<<"x">>, <<"y">>}
Titles == {<<"T">>, <<"U">>}

ValidEntries == {Entry(id, <<"T">>, "") : id \in Ids} \cup {Entry(<<"x">>, <<"U">>, "")}
MissingEntries == {Entry(<<"x">>, <<"T">>, f) : f \in RequiredFields}
\* Entries that are broken in another way: an empty runs list, not a dict.
BrokenEntries == {Entry(<<"x">>, <<"T">>, "title_runs"), Str(<<"x">>)}

Continuation(token, ctp) ==
    Map(<<"continuation", "clickTrackingParams">>, <<token, ctp>>)
ContNodes ==
    {Continuation(Str(<<"t">>), Str(<<"p">>)),
     Map(<<"continuation">>, <<Str(<<"t">>)>>),
     Map(<<"clickTrackingParams">>, <<Str(<<"p">>)>>),
     Continuation(None, None),
     Continuation(Str(<<>>), Str(<<"p">>)),
     Str(<<"t">>)}

EstValues == {0, 12, 0 - 3}
EstFields == {<<>>} \cup {<< <<"estimatedResults", Str(PyFormat(Num(i)))>> >> : i \in EstValues}

\* {"estimatedResults": .., "contents": {"sectionListRenderer": {"contents":
\*   [{"itemSectionRenderer": {"contents": [{"compactVideoRenderer": ..}, ..]}}],
\*   "continuations": [{"nextContinuationData": ..}, ..]}}}
Page(est, entries, conts) ==
    MapOf(est \o << <<"contents",
        Map(<<"sectionListRenderer">>, <<MapOf(
            << <<"contents", List(<<Map(<<"itemSectionRenderer">>, <<Map(<<"contents">>,
                   <<List([i \in 1..Len(entries) |-> Map(<<VideoKey>>, <<entries[i]>>)])>>)>>)>>)>> >>
            \o (IF conts = <<>> THEN <<>>
                ELSE << <<"continuations",
                          List([i \in 1..Len(conts) |->
                                   Map(<<ContinuationKey>>, <<conts[i]>>)])>> >>))>>)>> >>)

-----------------------------------------------------------------------------
(* VideoDataManager *)

HasVideo(st, video_id) == \E i \in 1..Len(st) : st[i].video_id = video_id

\* A variant that overwrites the stored record of the same identifier.
AddVideoDataObjectOverwrite(st, video) ==
    IF HasVideo(st, video.video_id)
    THEN [i \in 1..Len(st) |-> IF st[i].video_id = video.video_id THEN video ELSE st[i]]
    ELSE Append(st, video)

\* A variant that moves a re-inserted identifier to the end.
AddVideoDataObjectMove(st, video) ==
    IF HasVideo(st, video.video_id)
    THEN Append(SelectSeq(st, LAMBDA v : v.video_id # video.video_id),
                CHOOSE v \in {st[i] : i \in 1..Len(st)} : v.video_id = video.video_id)
    ELSE Append(st, video)

\* add_video_data_object(video): "already in dict, not adding", else a new
\* key at the end of the dict.
AddVideoDataObject(st, video) ==
    IF HasVideo(st, video.video_id) THEN st ELSE Append(st, video)

RECURSIVE AddVideosReverse(_, _)
\* A variant that inserts the last record of the input first.
AddVideosReverse(st, vs) ==
    IF vs = <<>> THEN st
    ELSE AddVideoDataObject(AddVideosReverse(st, Tail(vs)), Head(vs))

RECURSIVE AddVideos(_, _)
\* add_videos(videos): for video in videos: self.add_video_data_object(video)
AddVideos(st, vs) ==
    IF vs = <<>> THEN st ELSE AddVideos(AddVideoDataObject(st, Head(vs)), Tail(vs))

\* add_video(video_id, thumbnail_url, ...): the same test, on a Video built here.
AddVideo(st, video_id, thumbnail_url, title, length, channel, channel_url, channel_thumbnail_url, uploaded_on, view_count_text) ==
    IF HasVideo(st, video_id) THEN st
    ELSE Append(st, Video(video_id, WatchUrl(video_id), thumbnail_url, title, length,
                          channel, channel_url, channel_thumbnail_url, uploaded_on,
                          view_count_text))

\* get_video(video_id): the record, or None after the KeyError.
GetVideo(st, video_id) ==
    IF HasVideo(st, video_id)
    THEN CHOOSE v \in {st[i] : i \in 1..Len(st)} : v.video_id = video_id
    ELSE None

\* get_videos(): self._videos.values()
GetVideos(st) == st

\* Video.__str__
VideoStr(v) ==
    <<"[">> \o PyFormat(v.video_id) \o <<"] ">> \o PyFormat(v.title) \o <<" (">>
    \o PyFormat(v.length) \o <<") - ">> \o PyFormat(v.view_count_text) \o <<"\nby: ">>
    \o PyFormat(v.channel) \o <<" - uploaded ">> \o PyFormat(v.uploaded_on) \o <<" - ">>
    \o v.video_url \o <<"\n">>

\* print_videos(): one "{index}. {video}" per record.
PrintVideos(st) == [i \in 1..Len(st) |-> DecimalChars(i) \o <<". ">> \o VideoStr(st[i])]

RECURSIVE Join(_, _)
\* sep.join(items)
Join(items, sep) ==
    IF items = <<>> THEN <<>>
    ELSE IF Len(items) = 1 THEN items[1]
    ELSE items[1] \o <<sep>> \o Join(Tail(items), sep)

RECURSIVE MarkdownContents(_, _)
\* markdown_contents after the loop has appended the records from the i-th on.
MarkdownContents(st, i) ==
    IF i > Len(st) THEN <<>>
    ELSE LET v == st[i]
         IN << <<"![thumbnail preview](">> \o PyFormat(v.thumbnail_url) \o <<")\n">>,
               <<"[[">> \o PyFormat(v.video_id) \o <<"] ">> \o PyFormat(v.title) \o <<"](">>
                 \o v.video_url \o <<") (">> \o PyFormat(v.length) \o <<") - ">>
                 \o PyFormat(v.view_count_text) \o <<"  ">>,
               <<"![channel thumbnail preview](">> \o PyFormat(v.channel_thumbnail_url)
                 \o <<") ">> \o PyFormat(v.channel) \o <<" - uploaded ">>
                 \o PyFormat(v.uploaded_on) \o <<"\n\n- - -\n">> >>
            \o MarkdownContents(st, i + 1)

\* write_videos_to_markdown_file(): the text written to the file.
Markdown(st) == Join(<< <<"# Search Results Summary\n\n">> >> \o MarkdownContents(st, 1), "\n")

-----------------------------------------------------------------------------
(* State shared by the specifications *)

Ret(op, arg, exc, val) == [op |-> op, arg |-> arg, exc |-> exc, val |-> val]
NoRet == Ret("", None, "", None)

\* No parser, no store content, nothing printed, written or requested.
Blank ==
    /\ json = None
    /\ videos = <<>>
    /\ store = <<>>
    /\ ret = NoRet
    /\ console = <<>>
    /\ mdfile = <<>>
    /\ requests = <<>>

-----------------------------------------------------------------------------
(* SpecExtract: _gen_dict_extract and parse_video_results of a new parser,  *)
(* on one nested document of any shape                                      *)

InitExtract ==
    /\ Blank
    /\ pc = "fresh"
    /\ input \in GenericDocs(MaxDepth)

\* list(self._gen_dict_extract(key, input))
ExtractCall(key) ==
    /\ pc = "fresh"
    /\ pc' = "called"
    /\ ret' = Ret("_gen_dict_extract", Str(<<key>>), "", GenDictExtract(key, input))
    /\ UNCHANGED <<json, videos, store, console, mdfile, requests, input>>

\* SearchResultsJSONParser().parse_video_results(input)
ExtractParseCall ==
    /\ pc = "fresh"
    /\ pc' = "called"
    /\ LET r == ParseVideoResults(input, videos)
       IN /\ json' = input
          /\ videos' = r.videos
          /\ ret' = Ret("parse_video_results", None, r.exc, None)
    /\ UNCHANGED <<store, console, mdfile, requests, input>>

NextExtract ==
    \/ \E key \in GenKeys : ExtractCall(key)
    \/ ExtractParseCall

SpecExtract == InitExtract /\ [][NextExtract]_vars

-----------------------------------------------------------------------------
(* SpecParser: one SearchResultsJSONParser, called by any client *)

\* Entries that are complete or lack one required sub-field.
CleanEntries == {Entry(id, <<"T">>, "") : id \in Ids} \cup MissingEntries
FewEntries == {<<>>, <<Entry(<<"x">>, <<"T">>, "")>>, <<Entry(<<"x">>, <<"T">>, "title")>>}

\* Pages of at most n entries, complete or lacking a sub-field, without
\* continuation; pages of few entries with at most c continuation nodes;
\* pages with a broken entry after a complete one; documents that are no page.
ParserDocs(n, c) ==
    {Page(est, el, <<>>) : est \in EstFields, el \in SeqsUpTo(CleanEntries, n)}
    \cup {Page(est, el, cl) : est \in EstFields, el \in FewEntries,
                              cl \in SeqsUpTo(ContNodes, c)}
    \cup {Page(<<>>, <<e, b>>, <<>>) : e \in ValidEntries, b \in BrokenEntries}
    \cup {EmptyMap, List(<<>>), Str(<<"a">>)}

InitParser ==
    /\ Blank
    /\ pc = "none"
    /\ input = None

\* SearchResultsJSONParser(results_json): with a document, __init__ parses it;
\* an exception of that parse leaves the caller without a parser.
NewParser(results_json) ==
    /\ pc = "none"
    /\ input' = results_json
    /\ json' = results_json
    /\ IF results_json = None
       THEN /\ pc' = "new"
            /\ videos' = <<>>
            /\ ret' = Ret("__init__", None, "", None)
       ELSE LET r == ParseVideoResults(results_json, <<>>)
            IN /\ pc' = IF r.exc = "" THEN "parsed" ELSE "dead"
               /\ videos' = r.videos
               /\ ret' = Ret("__init__", None, r.exc, None)
    /\ UNCHANGED <<store, console, mdfile, requests>>

\* parse_video_results(results_json), the first parse of this parser.
ParseCall(results_json) ==
    /\ pc = "new"
    /\ pc' = "parsed"
    /\ input' = results_json
    /\ LET r == ParseVideoResults(results_json, videos)
       IN /\ json' = results_json
          /\ videos' = r.videos
          /\ ret' = Ret("parse_video_results", None, r.exc, None)
    /\ UNCHANGED <<store, console, mdfile, requests>>

EstimatedCall ==
    /\ pc \in {"new", "parsed"}
    /\ LET r == GetEstimatedResultsCount(json)
       IN ret' = Ret("get_estimated_results_count", None, r.exc, r.val)
    /\ UNCHANGED <<pc, json, videos, store, console, mdfile, requests, input>>

ContinuationCall ==
    /\ pc \in {"new", "parsed"}
    /\ LET r == GetNextContinuationData(json)
       IN ret' = Ret("get_next_continuation_data", None, r.exc, r.val)
    /\ UNCHANGED <<pc, json, videos, store, console, mdfile, requests, input>>

\* get_video_results(): return self._videos
VideoResultsCall ==
    /\ pc \in {"new", "parsed"}
    /\ ret' = Ret("get_video_results", None, "", videos)
    /\ UNCHANGED <<pc, json, videos, store, console, mdfile, requests, input>>

NextParser ==
    \/ pc = "none" /\ \E d \in ParserDocs(MaxEntries, MaxConts) \cup {None} : NewParser(d)
    \/ pc = "new" /\ \E d \in ParserDocs(MaxEntries, MaxConts) : ParseCall(d)
    \/ EstimatedCall
    \/ ContinuationCall
    \/ VideoResultsCall

SpecParser == InitParser /\ [][NextParser]_vars

-----------------------------------------------------------------------------
(* SpecStore: one VideoDataManager, called by any client *)

StoreVideo(id, title) ==
    Video(Str(id), WatchUrl(Str(id)), Str(<<"i">>), Str(title), Str(<<"1", ":", "0", "0">>),
          Str(<<"c">>), Str(<<"/", "c">>), Str(<<"j">>), Str(<<"d">>), Str(<<"9">>))
StoreKeys == {<<<<"x">>, <<"T">>>>, <<<<"y">>, <<"T">>>>, <<<<"y">>, <<"U">>>>}
StoreVideos == {StoreVideo(k[1], k[2]) : k \in StoreKeys}

\* VideoDataManager()
InitStore ==
    /\ Blank
    /\ pc = "store"
    /\ input = None

AddVideoCall(id, title) ==
    /\ pc = "store"
    /\ store' = AddVideo(store, Str(id), Str(<<"i">>), Str(title), Str(<<"1", ":", "0", "0">>),
                         Str(<<"c">>), Str(<<"/", "c">>), Str(<<"j">>), Str(<<"d">>),
                         Str(<<"9">>))
    /\ ret' = Ret("add_video", StoreVideo(id, title), "", None)
    /\ UNCHANGED <<pc, json, videos, console, mdfile, requests, input>>

AddVideoDataObjectCall(video) ==
    /\ pc = "store"
    /\ store' = AddVideoDataObject(store, video)
    /\ ret' = Ret("add_video_data_object", video, "", None)
    /\ UNCHANGED <<pc, json, videos, console, mdfile, requests, input>>

AddVideosCall(vs) ==
    /\ pc = "store"
    /\ store' = AddVideos(store, vs)
    /\ ret' = Ret("add_videos", vs, "", None)
    /\ UNCHANGED <<pc, json, videos, console, mdfile, requests, input>>

GetVideoCall(id) ==
    /\ pc = "store"
    /\ ret' = Ret("get_video", Str(id), "", GetVideo(store, Str(id)))
    /\ UNCHANGED <<pc, json, videos, store, console, mdfile, requests, input>>

GetVideosCall ==
    /\ pc = "store"
    /\ ret' = Ret("get_videos", None, "", GetVideos(store))
    /\ UNCHANGED <<pc, json, videos, store, console, mdfile, requests, input>>

\* console holds the output of the latest print_videos call.
PrintVideosCall ==
    /\ pc = "store"
    /\ console' = PrintVideos(store)
    /\ ret' = Ret("print_videos", None, "", None)
    /\ UNCHANGED <<pc, json, videos, store, mdfile, requests, input>>

\* open(filename, "w") truncates: the file holds the latest call's text.
WriteMarkdownCall ==
    /\ pc = "store"
    /\ mdfile' = Markdown(store)
    /\ ret' = Ret("write_videos_to_markdown_file", None, "", None)
    /\ UNCHANGED <<pc, json, videos, store, console, requests, input>>

NextStore ==
    \/ \E k \in StoreKeys : AddVideoCall(k[1], k[2])
    \/ \E v \in StoreVideos : AddVideoDataObjectCall(v)
    \/ \E vs \in SeqsUpTo(StoreVideos, MaxBatch) : AddVideosCall(vs)
    \/ \E id \in Ids : GetVideoCall(id)
    \/ GetVideosCall
    \/ PrintVideosCall
    \/ WriteMarkdownCall

SpecStore == InitStore /\ [][NextStore]_vars

-----------------------------------------------------------------------------
(* Spec: one run of the script (search_results_scraper.py, __main__) *)

Query == <<"python">>

\* bool(x)
Truthy(v) ==
    CASE v.t = "str" -> v.s # <<>>
      [] v.t \in {"num", "bool"} -> v.n # 0
      [] v.t = "null" -> FALSE
      [] OTHER -> v.e # <<>>

\* search_url of get_json_for_search (use_mobile=True).
SearchUrl(query, continuation_token, clicking_param_token) ==
    <<"https://m.youtube.com/results", "?", "search_query=">> \o query
    \o <<"&", "sp=CAI%253D">>
    \o (IF Truthy(continuation_token) /\ Truthy(clicking_param_token)
        THEN <<"&", "ctoken=">> \o PyFormat(continuation_token)
             \o <<"&", "continuation=">> \o PyFormat(continuation_token)
             \o <<"&", "itct=">> \o PyFormat(clicking_param_token)
        ELSE <<>>)

\* What a request can come to: urlopen raises URLError (get_raw_html returns
\* None), the body is empty, urlopen or read raises another exception, the
\* HTML has no div#initial-data, its text is no JSON, or it holds a page.
Failures == {"URLError", "empty_body", "other_error", "no_initial_data", "invalid_json"}
ScriptEntries ==
    ValidEntries \cup {Entry(<<"x">>, <<"T">>, "title"), Entry(<<"x">>, <<"T">>, "video_id")}
ScriptDocs ==
    {Page(est, el, cl) : est \in EstFields, el \in SeqsUpTo(ScriptEntries, MaxPageEntries),
                         cl \in {<<>>} \cup {<<c>> : c \in ContNodes}}
Responses ==
    {[kind |-> k, doc |-> None] : k \in Failures}
    \cup {[kind |-> "page", doc |-> d] : d \in ScriptDocs}

\* A variant of get_json_for_search without the "if not raw_html" exit.
FetchOutcomeNoExit(resp) ==
    IF resp.kind \in {"other_error", "no_initial_data", "invalid_json"} THEN "crash" ELSE "ok"

\* How get_json_for_search ends: sys.exit(1) when raw_html is None or empty,
\* an uncaught exception, or a document returned.
FetchOutcome(resp) ==
    CASE resp.kind \in {"URLError", "empty_body"} -> "exit1"
      [] resp.kind \in {"other_error", "no_initial_data", "invalid_json"} -> "crash"
      [] OTHER -> "ok"

\* "ctoken, ctp = value": None cannot be unpacked.
Unpack(v) == IF v.t = "seq" /\ Len(v.e) = 2 THEN Ok(v) ELSE Raise("TypeError")

\* VideoDataManager(); nothing fetched yet.
Init ==
    /\ Blank
    /\ pc = "start"
    /\ input = None

\* get_json_for_search(search_query) and, in round 2,
\* get_json_for_search(search_query, ctoken, ctp).
Fetch(resp) ==
    /\ pc \in {"start", "continue"}
    /\ LET ctoken == IF pc = "start" THEN None ELSE ret.val.e[1]
           ctp == IF pc = "start" THEN None ELSE ret.val.e[2]
       IN requests' = Append(requests, [url |-> SearchUrl(Query, ctoken, ctp),
                                        outcome |-> resp.kind])
    /\ pc' = IF FetchOutcome(resp) = "ok"
             THEN (IF pc = "start" THEN "fetched1" ELSE "fetched2")
             ELSE FetchOutcome(resp)
    /\ input' = IF FetchOutcome(resp) = "ok" THEN resp.doc ELSE input
    /\ UNCHANGED <<json, videos, store, ret, console, mdfile>>

\* results_parser.parse_video_results(...) of either round (the parser is
\* made just before the first).
Parse ==
    /\ pc \in {"fetched1", "fetched2"}
    /\ LET r == ParseVideoResults(input, videos)
       IN /\ json' = input
          /\ videos' = r.videos
          /\ ret' = Ret("parse_video_results", None, r.exc, None)
          /\ pc' = IF r.exc # "" THEN "crash"
                   ELSE IF pc = "fetched1" THEN "parsed1" ELSE "parsed2"
    /\ UNCHANGED <<store, console, mdfile, requests, input>>

\* video_data_manager.add_videos(results_parser.get_video_results())
AddResults ==
    /\ pc \in {"parsed1", "parsed2"}
    /\ store' = AddVideos(store, videos)
    /\ ret' = Ret("add_videos", videos, "", None)
    /\ pc' = IF pc = "parsed1" THEN "added1" ELSE "render"
    /\ UNCHANGED <<json, videos, console, mdfile, requests, input>>

\* estimated_results = results_parser.get_estimated_results_count() and the
\* two tests on it.
Estimate ==
    /\ pc = "added1"
    /\ LET r == GetEstimatedResultsCount(json)
       IN /\ ret' = Ret("get_estimated_results_count", None, r.exc, r.val)
          /\ pc' = IF r.exc # "" THEN "crash"
                   ELSE IF r.val = 0 THEN "exit0"
                   ELSE IF r.val > 0 THEN "paginate"
                   ELSE "render"
    /\ UNCHANGED <<json, videos, store, console, mdfile, requests, input>>

\* ctoken, ctp = results_parser.get_next_continuation_data()
\* if not ctoken is None or not ctp is None: ...
NextContinuation ==
    /\ pc = "paginate"
    /\ LET r == GetNextContinuationData(json)
           u == IF r.exc # "" THEN r ELSE Unpack(r.val)
       IN /\ ret' = Ret("get_next_continuation_data", None, u.exc, r.val)
          /\ pc' = IF u.exc # "" THEN "crash"
                   ELSE IF u.val.e[1] # None \/ u.val.e[2] # None THEN "continue"
                   ELSE "render"
    /\ UNCHANGED <<json, videos, store, console, mdfile, requests, input>>

\* video_data_manager.print_videos()
PrintResults ==
    /\ pc = "render"
    /\ console' = PrintVideos(store)
    /\ ret' = Ret("print_videos", None, "", None)
    /\ pc' = "printed"
    /\ UNCHANGED <<json, videos, store, mdfile, requests, input>>

\* video_data_manager.write_videos_to_markdown_file()
WriteResults ==
    /\ pc = "printed"
    /\ mdfile' = Markdown(store)
    /\ ret' = Ret("write_videos_to_markdown_file", None, "", None)
    /\ pc' = "done"
    /\ UNCHANGED <<json, videos, store, console, requests, input>>

Next ==
    \/ pc \in {"start", "continue"} /\ \E resp \in Responses : Fetch(resp)
    \/ Parse
    \/ AddResults
    \/ Estimate
    \/ NextContinuation
    \/ PrintResults
    \/ WriteResults

Spec == Init /\ [][Next]_vars

-----------------------------------------------------------------------------
(* Properties of _gen_dict_extract (SpecExtract) *)

RECURSIVE Occurrences(_, _)
RECURSIVE OccurrencesFrom(_, _, _)
\* The number of dict items with this key anywhere in the structure.
Occurrences(key, node) ==
    IF node.t \in {"map", "seq"} THEN OccurrencesFrom(key, node, 1) ELSE 0

OccurrencesFrom(key, node, i) ==
    IF i > Len(node.e) THEN 0
    ELSE (IF node.t = "map" /\ node.ks[i] = key THEN 1 ELSE 0)
         + Occurrences(key, node.e[i]) + OccurrencesFrom(key, node, i + 1)

RECURSIVE NoListInList(_)
\* No list is directly an element of a list.
NoListInList(node) ==
    \A i \in 1..Len(node.e) :
        /\ node.t = "seq" => node.e[i].t # "seq"
        /\ NoListInList(node.e[i])

\* The documents the traversal explores entirely: the top level is not a
\* list, and no list is directly an element of a list.
Explorable(doc) == doc.t # "seq" /\ NoListInList(doc)

Extracted == ret.op = "_gen_dict_extract"
ExtractedKey == ret.arg.s[1]

DeepDoc ==
    WrapAll(<<"match", "dict", "list2", "dict", "match">>, Map(<<VideoKey>>, <<Bool(TRUE)>>))

C5_AbsentKeyYieldsNothing ==
    /\ (Extracted /\ Occurrences(ExtractedKey, input) = 0) =>
           (ret.val = <<>> /\ ret.exc = "")
    /\ (ret.op = "parse_video_results" /\ Occurrences(VideoKey, input) = 0) =>
           (videos = <<>> /\ ret.exc = "")

C5_Witness ==
    /\ Extracted
    /\ ExtractedKey = VideoKey
    /\ input = WrapAll(<<"dict", "list", "dict">>, List(<<Str(<<"a">>), Bool(TRUE)>>))
    /\ Occurrences(VideoKey, input) = 0
    /\ ret.val = <<>>

RECURSIVE MatchPaths(_, _)
\* The places of the matches the traversal comes to, from a dict: a place is
\* the sequence of positions (of an item in its dict, of an element in its
\* list) that leads from the dict to the matched value. An item's value is
\* entered when it is a dict, and the elements of an item's list that are
\* dicts are entered.
MatchPaths(key, node) ==
    UNION {
        (IF node.ks[i] = key THEN {<<i>>} ELSE {})
        \cup (IF node.e[i].t = "map"
              THEN {<<i>> \o p : p \in MatchPaths(key, node.e[i])}
              ELSE IF node.e[i].t = "seq"
              THEN UNION {{<<i, j>> \o p : p \in MatchPaths(key, node.e[i].e[j])} :
                            j \in {j \in 1..Len(node.e[i].e) : node.e[i].e[j].t = "map"}}
              ELSE {})
        : i \in 1..Len(node.e)}

RECURSIVE PathBefore(_, _)
\* Depth-first order of two places: a place comes before the places inside
\* it, and a smaller position before a greater one.
PathBefore(p, q) ==
    IF p = <<>> THEN TRUE
    ELSE IF q = <<>> THEN FALSE
    ELSE IF p[1] # q[1] THEN p[1] < q[1]
    ELSE PathBefore(Tail(p), Tail(q))

RECURSIVE SortPaths(_)
\* The places of a set, in depth-first order.
SortPaths(S) ==
    IF S = {} THEN <<>>
    ELSE LET first == CHOOSE p \in S : \A q \in S : PathBefore(p, q)
         IN <<first>> \o SortPaths(S \ {first})

RECURSIVE ValueAtPath(_, _)
ValueAtPath(node, p) == IF p = <<>> THEN node ELSE ValueAtPath(node.e[p[1]], Tail(p))

\* The matched values of a document in depth-first order of their places.
DepthFirstMatches(key, doc) ==
    IF doc.t # "map" THEN <<>>
    ELSE LET ps == SortPaths(MatchPaths(key, doc))
         IN [i \in 1..Len(ps) |-> ValueAtPath(doc, ps[i])]

\* C11: the extractor yields the matches in depth-first order, each dict's
\* items in stored order and each list in index order; a matched value comes
\* first and, when it is a dict or a list of dicts, the matches inside it come
\* after it and before those of the dict's following items.
C11_DepthFirstOrder ==
    Extracted => ret.val = DepthFirstMatches(ExtractedKey, input)

\* {V: [{V: "b"}, {V: "a", "contents": {V: 2}}], "contents": {V: 2}}: the
\* matched list first, then the matches inside it in index order, then the
\* match of the following item.
C11_Witness ==
    /\ Extracted
    /\ ExtractedKey = VideoKey
    /\ input = WrapAll(<<"match", "list2", "match">>, Str(<<"a">>))
    /\ ret.val = <<Wrap("list2", Wrap("match", Str(<<"a">>))), Str(<<"b">>), Str(<<"a">>),
                   Num(2), Num(2)>>

-----------------------------------------------------------------------------
(* Properties of the parser (SpecParser) *)

Parsed == ret.op \in {"parse_video_results", "__init__"} /\ input # None

\* The video-entry nodes of a document, wherever they are.
EntriesOf(doc) == GenDictExtractFull(VideoKey, doc)

\* The record a complete entry stands for.
RecordOf(entry) ==
    LET it == CHOOSE it \in Ids \X Titles : entry = Entry(it[1], it[2], "")
    IN StoreVideo(it[1], it[2])

RECURSIVE ValidRecords(_)
\* The records of the complete entries, in the order of the entries.
ValidRecords(entries) ==
    IF entries = <<>> THEN <<>>
    ELSE (IF Head(entries) \in ValidEntries THEN <<RecordOf(Head(entries))>> ELSE <<>>)
         \o ValidRecords(Tail(entries))

\* C1: when every entry of the document is complete or lacks one required
\* sub-field (identifier, thumbnail URL, title, duration, channel name,
\* channel URL, channel-thumbnail URL, upload time, view count), parse
\* produces exactly the records of the complete entries, in order, and no
\* exception escapes.
C1_MalformedEntriesSkipped ==
    (Parsed /\ \A i \in 1..Len(EntriesOf(input)) :
                   EntriesOf(input)[i] \in ValidEntries \cup MissingEntries) =>
        /\ ret.exc = ""
        /\ videos = ValidRecords(EntriesOf(input))

\* The same with the identifier present in every entry: the part of C1 the
\* code keeps.
C1_SkippedWhenIdentified ==
    (Parsed /\ \A i \in 1..Len(EntriesOf(input)) :
                   EntriesOf(input)[i] \in
                       ValidEntries \cup (MissingEntries \ {Entry(<<"x">>, <<"T">>, "video_id")})) =>
        /\ ret.exc = ""
        /\ videos = ValidRecords(EntriesOf(input))

\* The continuation nodes of a document, wherever they are.
ContsOf(doc) == GenDictExtractFull(ContinuationKey, doc)
HasKey(node, key) == node.t = "map" /\ \E i \in 1..Len(node.ks) : node.ks[i] = key
ValueAt(node, key) == node.e[CHOOSE i \in 1..Len(node.ks) : node.ks[i] = key]
CompleteCont(node) == HasKey(node, "continuation") /\ HasKey(node, "clickTrackingParams")

\* C3: next_continuation never raises; it returns the absence-signal when the
\* document has no nextContinuationData and when the matched node lacks the
\* token or the tracking parameter, and otherwise the pair of both.
C3_PairOrAbsence ==
    ret.op = "get_next_continuation_data" =>
        /\ ret.exc = ""
        /\ IF ContsOf(json) # <<>> /\ CompleteCont(ContsOf(json)[1])
           THEN ret.val = List(<<ValueAt(ContsOf(json)[1], "continuation"),
                                 ValueAt(ContsOf(json)[1], "clickTrackingParams")>>)
           ELSE ret.val = None

\* The same for documents whose first continuation node is a dict: the part
\* of C3 the code keeps.
C3_PairOrAbsenceOfDict ==
    (ret.op = "get_next_continuation_data"
     /\ (ContsOf(json) # <<>> => ContsOf(json)[1].t = "map")) =>
        /\ ret.exc = ""
        /\ IF ContsOf(json) # <<>> /\ CompleteCont(ContsOf(json)[1])
           THEN ret.val = List(<<ValueAt(ContsOf(json)[1], "continuation"),
                                 ValueAt(ContsOf(json)[1], "clickTrackingParams")>>)
           ELSE ret.val = None

\* C9: estimated_result_count returns the integer the top-level
\* estimatedResults field denotes ("12" gives 12); without that field the
\* call raises; and the call leaves the parser's document and records as
\* they were.
C9_EstimatedCountOrError ==
    [][ret'.op = "get_estimated_results_count" =>
          /\ \A i \in EstValues :
                 (HasKey(json, "estimatedResults")
                  /\ ValueAt(json, "estimatedResults") = Str(PyFormat(Num(i)))) =>
                     (ret'.exc = "" /\ ret'.val = i)
          /\ ~HasKey(json, "estimatedResults") => ret'.exc # ""
          /\ (json.t = "map" /\ ~HasKey(json, "estimatedResults")) => ret'.exc = "KeyError"
          /\ videos' = videos
          /\ json' = json]_vars

C9_Witness ==
    /\ ret.op = "get_estimated_results_count"
    /\ ret.exc = ""
    /\ ret.val = 12
    /\ Len(videos) = 2

C9_WitnessAbsent ==
    /\ ret.op = "get_estimated_results_count"
    /\ ret.exc = "KeyError"
    /\ Len(videos) = 2

\* The continuation nodes of a document in the order the traversal comes to them.
ContMatches(doc) == DepthFirstMatches(ContinuationKey, doc)

\* C12: when the document holds one or more nextContinuationData nodes, the
\* result is that of the first one in traversal order: a complete first node
\* gives its pair; a first node that is not complete gives no pair, whatever
\* the later nodes are, and the absence-signal when it is a dict lacking a
\* sub-field.
C12_FirstMatchOnly ==
    (ret.op = "get_next_continuation_data" /\ ContMatches(json) # <<>>) =>
        LET first == ContMatches(json)[1]
        IN IF CompleteCont(first)
           THEN /\ ret.exc = ""
                /\ ret.val = List(<<ValueAt(first, "continuation"),
                                    ValueAt(first, "clickTrackingParams")>>)
           ELSE /\ ret.val = None
                /\ first.t = "map" => ret.exc = ""

\* Two nodes, the first without tracking parameter and the second complete:
\* the absence-signal.
C12_Witness ==
    /\ ret.op = "get_next_continuation_data"
    /\ Len(ContMatches(json)) = 2
    /\ ContMatches(json)[1] = Map(<<"continuation">>, <<Str(<<"t">>)>>)
    /\ CompleteCont(ContMatches(json)[2])
    /\ ret.exc = ""
    /\ ret.val = None

\* Two complete nodes that differ: the pair of the first.
C12_WitnessPair ==
    /\ ret.op = "get_next_continuation_data"
    /\ ContMatches(json) = <<Continuation(Str(<<>>), Str(<<"p">>)),
                             Continuation(Str(<<"t">>), Str(<<"p">>))>>
    /\ ret.val = List(<<Str(<<>>), Str(<<"p">>)>>)

-----------------------------------------------------------------------------
(* Properties of the store (SpecStore) *)

StoredIds(st) == {st[i].video_id : i \in 1..Len(st)}

\* C6: inserting a record whose identifier is stored changes nothing: the
\* stored record stays, even when the new one differs in other fields, no
\* error is raised and all() is as before; and inserting the record just
\* inserted once more gives the same all().
C6_InsertIdempotent ==
    [][ret'.op = "add_video_data_object" =>
          /\ ret'.exc = ""
          /\ ret'.arg.video_id \in StoredIds(store) => GetVideos(store') = GetVideos(store)
          /\ GetVideos(AddVideoDataObject(store', ret'.arg)) = GetVideos(store')
          /\ ret'.arg.video_id \in StoredIds(store')]_vars

\* After the insert of a record that differs from the stored record of its
\* identifier.
C6_Witness ==
    /\ ret.op = "add_video_data_object"
    /\ ret.arg.video_id \in StoredIds(store)
    /\ \A i \in 1..Len(store) : store[i] # ret.arg
    /\ Len(store) = 2

RECURSIVE FirstSeen(_, _, _)
\* The records of vs, from the i-th on, whose identifier is neither stored in
\* st nor carried by an earlier record of vs.
FirstSeen(st, vs, i) ==
    IF i > Len(vs) THEN <<>>
    ELSE (IF vs[i].video_id \notin StoredIds(st)
             /\ \A j \in 1..(i - 1) : vs[j].video_id # vs[i].video_id
          THEN <<vs[i]>> ELSE <<>>)
         \o FirstSeen(st, vs, i + 1)

\* C7: after insert_many, all() lists the records stored before, in their
\* order, then the new identifiers in the order of their first occurrence in
\* the input, each with the record of that first occurrence.
C7_FirstSeenOrder ==
    [][ret'.op = "add_videos" =>
          GetVideos(store') = GetVideos(store) \o FirstSeen(store, ret'.arg, 1)]_vars

\* After an insert_many of a stored record followed by two records of one
\* new identifier.
C7_Witness ==
    /\ ret.op = "add_videos"
    /\ Len(ret.arg) = 3
    /\ ret.arg[1] = store[1]
    /\ ret.arg[2].video_id = ret.arg[3].video_id
    /\ ret.arg[2] # ret.arg[3]
    /\ Len(store) = 2
    /\ store[2] = ret.arg[2]

\* C10: the store starts empty; get (hit or miss), all and the two renderers
\* leave it as it is; and no call removes or replaces a stored record.
C10_OnlyInsertsMutate ==
    /\ store = <<>>
    /\ [][/\ ret'.op \in {"get_video", "get_videos", "print_videos",
                          "write_videos_to_markdown_file"} => store' = store
          /\ Len(store') >= Len(store)
          /\ \A i \in 1..Len(store) : store'[i] = store[i]
          /\ store' # store => ret'.op \in {"add_video", "add_video_data_object",
                                            "add_videos"}]_vars

\* A miss of get on a store of one record that was printed and written.
C10_Witness ==
    /\ ret.op = "get_video"
    /\ ret.val = None
    /\ Len(store) = 1
    /\ console = PrintVideos(store)
    /\ mdfile = Markdown(store)

-----------------------------------------------------------------------------
(* Properties of the script (Spec) *)

\* C2: when the first page reports a positive estimated count and
\* next_continuation gives the absence-signal, the run raises no error and
\* goes on to render the store, without a second fetch.
C2_AbsenceEndsPagination ==
    (ret.op = "get_next_continuation_data"
     /\ GetNextContinuationData(json) = Ok(None)) =>
        /\ ret.exc = ""
        /\ pc = "render"
        /\ Len(requests) = 1

\* C8: after a request that failed (no HTML, or no JSON in it) the run is
\* over: nothing is parsed, inserted or rendered after it, so the parser, the
\* store and the outputs are as they were when the request was made, and the
\* parser has only ever been given a fetched document.
C8_FailedFetchStops ==
    /\ json # None => json \in ScriptDocs
    /\ \A i \in 1..Len(requests) :
           requests[i].outcome # "page" =>
               /\ i = Len(requests)
               /\ pc \in {"exit1", "crash"}
               /\ console = <<>>
               /\ mdfile = <<>>
               /\ i = 1 => (json = None /\ videos = <<>> /\ store = <<>>)
               /\ i = 2 => /\ json = input
                           /\ videos = ParseVideoResults(input, <<>>).videos
                           /\ store = AddVideos(<<>>, videos)

\* A second request that failed, after a first page that gave a record.
C8_Witness ==
    /\ Len(requests) = 2
    /\ requests[2].outcome = "URLError"
    /\ pc = "exit1"
    /\ Len(store) = 1

\* The positions of the records that are the first of their identifier.
FirstPositions(vs) ==
    {i \in 1..Len(vs) : \A j \in 1..(i - 1) : vs[j].video_id # vs[i].video_id}

\* The first record of each identifier, in the order of the list.
FirstOfEachId(vs) ==
    LET firsts == FirstPositions(vs)
    IN [k \in 1..Cardinality(firsts) |->
           vs[CHOOSE i \in firsts : Cardinality({j \in firsts : j <= i}) = k]]

\* C13: the parser's list starts empty and every successful parse appends the
\* records of its document to the list as it was, so that after k parses the
\* list is the concatenation of the records of the k documents in call order;
\* and after each round's insert_many of that whole list the store holds one
\* record per identifier seen so far, the first seen of each, in first-seen
\* order.
C13_RecordsAccumulate ==
    /\ videos = <<>>
    /\ [][(pc \in {"fetched1", "fetched2"} /\ pc' \in {"parsed1", "parsed2"}) =>
              videos' = videos \o ValidRecords(EntriesOf(input))]_vars
    /\ [](ret.op = "add_videos" =>
              /\ ret.arg = videos
              /\ store = FirstOfEachId(videos)
              /\ \A i, j \in 1..Len(store) :
                     store[i].video_id = store[j].video_id => i = j)

\* After round 2 with a second page whose record has the identifier of the
\* first page's record and another title: both are in the parser's list, the
\* store holds the first.
C13_Witness ==
    /\ pc = "render"
    /\ ret.op = "add_videos"
    /\ Len(requests) = 2
    /\ videos = <<StoreVideo(<<"x">>, <<"T">>), StoreVideo(<<"x">>, <<"U">>)>>
    /\ store = <<StoreVideo(<<"x">>, <<"T">>)>>

\* After round 2 with records of two identifiers: the first page's record is
\* in the list given to the second insert_many, and is stored once.
C13_WitnessDistinct ==
    /\ pc = "render"
    /\ ret.op = "add_videos"
    /\ videos = <<StoreVideo(<<"y">>, <<"T">>), StoreVideo(<<"x">>, <<"T">>)>>
    /\ store = videos

\* The URL of a continuation request with this token and tracking parameter.
ContinuationUrl(token, ctp) ==
    <<"https://m.youtube.com/results", "?", "search_query=">> \o Query
    \o <<"&", "sp=CAI%253D", "&", "ctoken=">> \o token
    \o <<"&", "continuation=">> \o token \o <<"&", "itct=">> \o ctp

\* A non-empty string.
Present(v) == v.t = "str" /\ v.s # <<>>

\* C14: a run makes at most one follow-up request; the follow-up request is
\* made with the pair that the one next_continuation call returned, both
\* members of which are present and non-empty, and its URL carries both; it
\* is never a repeat of the first-page request.
C14_OneFollowUpWithBothTokens ==
    /\ Len(requests) <= 2
    /\ (Len(requests) = 2 /\ ret.op = "get_next_continuation_data") =>
           /\ ret.exc = ""
           /\ ret.val.t = "seq"
           /\ Len(ret.val.e) = 2
           /\ Present(ret.val.e[1])
           /\ Present(ret.val.e[2])
           /\ requests[2].url = ContinuationUrl(ret.val.e[1].s, ret.val.e[2].s)
           /\ requests[2].url # requests[1].url

\* The part of C14 the code keeps: at most one follow-up request, made after
\* a next_continuation call that returned a pair, and carrying both members
\* of the pair when both are non-empty.
C14_OneFollowUp ==
    /\ Len(requests) <= 2
    /\ (Len(requests) = 2 /\ ret.op = "get_next_continuation_data") =>
           /\ ret.exc = ""
           /\ ret.val.t = "seq"
           /\ (Present(ret.val.e[1]) /\ Present(ret.val.e[2])) =>
                  requests[2].url = ContinuationUrl(ret.val.e[1].s, ret.val.e[2].s)

=============================================================================
